---- MODULE Spec2Model ----
(***************************************************************************)
(* log-map: an append-only log server (server/src/storage.rs, grpc.rs,     *)
(* snapshot.rs, src/db.rs) and its client replica (log-map/src/map.rs,     *)
(* sync.rs, cache.rs).                                                     *)
(*                                                                         *)
(* Strings are modelled as the sequence of their UTF-8 bytes, byte strings *)
(* as sequences of numbers 0..255.  The records table is a function from   *)
(* the ordinals present (the INTEGER PRIMARY KEY) to (key, value).         *)
(* Every await of an async fn is a scheduling point, so a handler is one   *)
(* action per await-delimited step.                                        *)
(***************************************************************************)
EXTENDS Integers, Sequences, FiniteSets, TLC

(***************************************************************************)
(* Bounds of the model.                                                    *)
(***************************************************************************)
\* highest ordinal a write or an append may assign
MaxOrd == 3
\* snapshot_interval handed to Storage::with_snapshot
SnapshotInterval == 2
\* highest start_ordinal a raw subscriber asks for
MaxStart == 2
\* rows one subscription poll returns at most (LIMIT 100 in the source)
BatchLimit == 2
\* highest value of next_ordinal: one LogMap sends fewer requests than this
MaxNextOrdinal == 7
\* bits of the model's machine word, in place of 64: a u64 is 0..2^WordBits - 1,
\* an i64 is -2^(WordBits-1)..2^(WordBits-1) - 1
WordBits == 4

(***************************************************************************)
(* Program constants.                                                      *)
(***************************************************************************)
\* "map:"
MAP_PREFIX == <<109, 97, 112, 58>>
\* "BMAP"
BMAP_MAGIC == <<66, 77, 65, 80>>
BMAP_VERSION == 1
MAX_RETRIES == 5
\* Duration::from_millis(100), the first back-off delay
InitialDelay == 100

(***************************************************************************)
(* Inputs.                                                                 *)
(***************************************************************************)
\* "map:1"
KeyMap1 == MAP_PREFIX \o <<49>>
\* "map:-2"
KeyMapNeg2 == MAP_PREFIX \o <<45, 50>>
\* "map:x": prefix matches, tail is no i64
KeyMapX == MAP_PREFIX \o <<120>>
\* "job": a key of another user of the same log
KeyJob == <<106, 111, 98>>

\* "" (tombstone), "a", and the lone byte 0xFF (invalid UTF-8)
ValEmpty == <<>>
ValA == <<97>>
ValBad == <<255>>

RawWriters == {"w1", "w2"}
Callers == {"c1", "c2"}
\* the caller of a LogMap that is used from one task
SoloCallers == {"c1"}
Streams == RawWriters \cup Callers

VARIABLES
  records,                \* table records: ordinal -> [key, value]
  autoinc,                \* sqlite_sequence of the AUTOINCREMENT column
  snapshot_enabled,       \* Storage.snapshot is Some(_)
  last_snapshot_ordinal,  \* Snapshot.last_snapshot_ordinal
  files,                  \* snapshot directory: set of [ordinal, ext, data]
  wr,                     \* per write stream: the Storage::write call in progress
  sub,                    \* the subscription stream of Storage::subscribe_from
  delivered,              \* records the subscription has yielded, in order
  cache,                  \* Cache.inner: i64 -> String
  latest_known,           \* LogMapInner.latest_known
  last_sync,              \* LogMapInner.last_sync
  next_ordinal,           \* LogMapInner.next_ordinal
  call,                   \* per caller: the insert/remove call in progress
  sync                    \* the sync worker's position in SyncTask::run

server_vars == <<records, autoinc, snapshot_enabled, last_snapshot_ordinal, files, wr>>
sub_vars == <<sub, delivered>>
client_vars == <<cache, latest_known, last_sync, next_ordinal, call, sync>>
vars == <<records, autoinc, snapshot_enabled, last_snapshot_ordinal, files, wr,
          sub, delivered, cache, latest_known, last_sync, next_ordinal, call, sync>>

(***************************************************************************)
(* Helpers.                                                                *)
(***************************************************************************)
MaxOf(S) == CHOOSE x \in S : \A y \in S : y <= x

Max2(a, b) == IF a >= b THEN a ELSE b

\* SELECT MAX(ordinal) FROM records, then unwrap_or(0)
MaxOrdinal(recs) == IF DOMAIN recs = {} THEN 0 ELSE MaxOf(DOMAIN recs)

\* INSERT ... VALUES (n, ...) with no conflict clause: a duplicate ordinal is
\* rejected by the primary key and the table is left as it was
InsertOrFail(recs, n, rec) ==
  IF n \in DOMAIN recs THEN recs
  ELSE [o \in DOMAIN recs \cup {n} |-> IF o = n THEN rec ELSE recs[o]]

\* INSERT ... ON CONFLICT(ordinal) DO UPDATE SET key = excluded.key, ...
Upsert(recs, n, rec) ==
  [o \in DOMAIN recs \cup {n} |-> IF o = n THEN rec ELSE recs[o]]

Rec(key, value) == [key |-> key, value |-> value]

NoReq == [ordinal |-> 0, key |-> <<>>, value |-> <<>>, latest_known |-> 0]
NoResp == [accepted |-> FALSE, error |-> "none", assigned_ordinal |-> 0]
\* what a finished call still holds of its request: key and value were moved
\* into the query
Consumed(req) == [req EXCEPT !.key = <<>>, !.value = <<>>]

IdleWrite == [pc |-> "idle", req |-> NoReq, latest_ordinal |-> 0,
              written |-> 0, rows |-> <<>>, resp |-> NoResp]

\* WriteResponse as built by KvServiceImpl::write
RespAccepted(ordinal) == [accepted |-> TRUE, error |-> "none", assigned_ordinal |-> ordinal]
\* a conflict reported as an accepted write
RespConflictAccepted(latest) == [accepted |-> TRUE, error |-> "Conflict", assigned_ordinal |-> latest]
RespConflict(latest) == [accepted |-> FALSE, error |-> "Conflict", assigned_ordinal |-> latest]
RespDatabase == [accepted |-> FALSE, error |-> "Database", assigned_ordinal |-> 0]
RespSnapshot == [accepted |-> FALSE, error |-> "Snapshot", assigned_ordinal |-> 0]

(***************************************************************************)
(* Snapshot codec (server/src/snapshot.rs).                                *)
(***************************************************************************)
\* ASCII lower case, as SQLite's LIKE compares
Lower(b) == IF b \in 65..90 THEN b + 32 ELSE b

\* key LIKE 'map:%'
LikeMapPrefix(key) ==
  /\ Len(key) >= Len(MAP_PREFIX)
  /\ \A i \in 1..Len(MAP_PREFIX) : Lower(key[i]) = MAP_PREFIX[i]

\* String::from_utf8_lossy on bytes that are ASCII or a lone invalid byte:
\* an invalid byte becomes U+FFFD (EF BF BD)
RECURSIVE Lossy(_)
Lossy(bytes) ==
  IF bytes = <<>> THEN <<>>
  ELSE (IF Head(bytes) < 128 THEN <<Head(bytes)>> ELSE <<239, 191, 189>>)
       \o Lossy(Tail(bytes))

\* u32::to_le_bytes and u16::to_le_bytes
LE32(n) == <<n % 256, (n \div 256) % 256, (n \div 65536) % 256, (n \div 16777216) % 256>>
LE16(n) == <<n % 256, (n \div 256) % 256>>

\* SELECT key, value FROM records WHERE key LIKE 'map:%' (rowid order)
RECURSIVE MapRowsUpTo(_, _)
MapRowsUpTo(recs, n) ==
  IF n = 0 THEN <<>>
  ELSE LET rest == MapRowsUpTo(recs, n - 1)
       IN IF n \in DOMAIN recs /\ LikeMapPrefix(recs[n].key)
          THEN Append(rest, recs[n]) ELSE rest

SelectMapRows(recs) == MapRowsUpTo(recs, MaxOrdinal(recs))

\* the content save_text builds: "{key}: {value}\n" per record
RECURSIVE TextContent(_)
TextContent(rows) ==
  IF rows = <<>> THEN <<>>
  ELSE Head(rows).key \o <<58, 32>> \o Lossy(Head(rows).value) \o <<10>>
       \o TextContent(Tail(rows))

\* the entries part of the buffer save_binary builds
RECURSIVE BinaryEntries(_)
BinaryEntries(rows) ==
  IF rows = <<>> THEN <<>>
  ELSE LE16(Len(Head(rows).key)) \o Head(rows).key
       \o LE32(Len(Head(rows).value)) \o Head(rows).value
       \o BinaryEntries(Tail(rows))

BinaryContent(rows) ==
  BMAP_MAGIC \o LE32(BMAP_VERSION) \o LE32(Len(rows)) \o BinaryEntries(rows)

\* the four bytes read as a big-endian number
U32AtBigEndian(data, offset) ==
  16777216 * data[offset + 1] + 65536 * data[offset + 2] + 256 * data[offset + 3]
    + data[offset + 4]

\* u32::from_le_bytes and u16::from_le_bytes of the bytes after 0-based offset
U32At(data, offset) ==
  data[offset + 1] + 256 * data[offset + 2] + 65536 * data[offset + 3]
    + 16777216 * data[offset + 4]
U16At(data, offset) == data[offset + 1] + 256 * data[offset + 2]

\* the loop over count entries from 0-based offset, with a bounds check before
\* each read: the (key, value) records, or ok = FALSE (an Err, which carries no
\* record) at the first read that would pass the end of data
RECURSIVE DecodeEntries(_, _, _)
DecodeEntries(data, offset, count) ==
  IF count = 0 THEN [ok |-> TRUE, records |-> <<>>]
  ELSE IF offset + 2 > Len(data) THEN [ok |-> FALSE, records |-> <<>>]
  ELSE LET key_len == U16At(data, offset)
           key_at == offset + 2
       IN IF key_at + key_len > Len(data) THEN [ok |-> FALSE, records |-> <<>>]
          ELSE LET key == Lossy(SubSeq(data, key_at + 1, key_at + key_len))
                   len_at == key_at + key_len
               IN IF len_at + 4 > Len(data) THEN [ok |-> FALSE, records |-> <<>>]
                  ELSE LET value_len == U32At(data, len_at)
                           value_at == len_at + 4
                       IN IF value_at + value_len > Len(data)
                          THEN [ok |-> FALSE, records |-> <<>>]
                          ELSE LET value == SubSeq(data, value_at + 1, value_at + value_len)
                                   rest == DecodeEntries(data, value_at + value_len, count - 1)
                               IN IF rest.ok
                                  THEN [ok |-> TRUE,
                                        records |-> <<Rec(key, value)>> \o rest.records]
                                  ELSE [ok |-> FALSE, records |-> <<>>]

\* the decoder without its check of the magic
LoadFromBytesAnyMagic(data) ==
  IF data = <<>> THEN [ok |-> TRUE, records |-> <<>>]
  ELSE IF Len(data) < 12 THEN [ok |-> FALSE, records |-> <<>>]
  ELSE IF U32At(data, 4) # 1 THEN [ok |-> FALSE, records |-> <<>>]
  ELSE DecodeEntries(data, 12, U32At(data, 8))

\* SnapshotLoader::load_from_bytes: Ok(records) or Err
load_from_bytes(data) ==
  IF data = <<>> THEN [ok |-> TRUE, records |-> <<>>]
  ELSE IF Len(data) < 12 THEN [ok |-> FALSE, records |-> <<>>]
  ELSE IF SubSeq(data, 1, 4) # BMAP_MAGIC THEN [ok |-> FALSE, records |-> <<>>]
  ELSE IF U32At(data, 4) # 1 THEN [ok |-> FALSE, records |-> <<>>]
  ELSE DecodeEntries(data, 12, U32At(data, 8))

\* tokio::fs::write(path, data): create or replace the file of that name
WriteFile(dir, ordinal, ext, data) ==
  {f \in dir : ~(f.ordinal = ordinal /\ f.ext = ext)}
    \cup {[ordinal |-> ordinal, ext |-> ext, data |-> data]}

\* save_text / save_binary label the file with records.len()
SnapshotLabel(rows) == Len(rows)

\* the highest ordinal that labels a file of the directory
MaxFileOrdinal(dir) == MaxOf({f.ordinal : f \in dir})

\* Snapshot::get_latest_snapshot: the maximum ordinal for which a tmap or a
\* bmap exists, with the bytes of the bmap of that ordinal (Some) or nothing
\* (None); ordinal 0 and nothing for an empty directory
get_latest_snapshot(dir) ==
  IF dir = {} THEN [ordinal |-> 0, data |-> {}]
  ELSE [ordinal |-> MaxFileOrdinal(dir),
        data |-> {f.data : f \in {g \in dir : g.ordinal = MaxFileOrdinal(dir)
                                                /\ g.ext = "bmap"}}]

(***************************************************************************)
(* Storage (server/src/storage.rs).                                        *)
(***************************************************************************)
\* Storage::append: INSERT with the AUTOINCREMENT ordinal
append(key, value) ==
  LET ordinal == Max2(autoinc, MaxOrdinal(records)) + 1
  IN /\ ordinal <= MaxOrd
     /\ records' = InsertOrFail(records, ordinal, Rec(key, value))
     /\ autoinc' = ordinal
     /\ UNCHANGED <<snapshot_enabled, last_snapshot_ordinal, files, wr>>
     /\ UNCHANGED <<sub_vars, client_vars>>

\* the conflict test with the bound off by one
IsStaleOffByOne(latest_known_, latest_ordinal) == latest_known_ + 1 < latest_ordinal

\* the conflict test of Storage::write
IsStale(latest_known_, latest_ordinal) == latest_known_ < latest_ordinal

\* the INSERT trusts the ordinal the client proposed
NewOrdinalProposed(req, latest_ordinal) == req.ordinal

\* the INSERT continues from the ordinal the client knows
NewOrdinalFromKnown(req, latest_ordinal) == req.latest_known + 1

\* the ordinal Storage::write binds to its INSERT
NewOrdinal(req, latest_ordinal) == latest_ordinal + 1

\* Storage::write up to its first query: SELECT MAX(ordinal), the conflict
\* check.  A stale request is answered here; any other goes on to the INSERT.
write_select(w, req) ==
  LET latest_ordinal == MaxOrdinal(records)
  IN /\ wr[w].pc = "idle"
     /\ IF IsStale(req.latest_known, latest_ordinal)
        THEN wr' = [wr EXCEPT ![w] = [IdleWrite EXCEPT !.pc = "done", !.req = Consumed(req),
                        !.latest_ordinal = latest_ordinal,
                        !.resp = RespConflict(latest_ordinal)]]
        ELSE /\ NewOrdinal(req, latest_ordinal) <= MaxOrd
             /\ wr' = [wr EXCEPT ![w] = [IdleWrite EXCEPT !.pc = "insert", !.req = req,
                        !.latest_ordinal = latest_ordinal]]
     /\ UNCHANGED <<records, autoinc, snapshot_enabled, last_snapshot_ordinal, files>>
     /\ UNCHANGED <<sub_vars, client_vars>>

\* the SELECT of Storage::write returns a sqlx::Error: Err(WriteError::Sql)
write_select_error(w, req) ==
  /\ wr[w].pc = "idle"
  /\ wr' = [wr EXCEPT ![w] = [IdleWrite EXCEPT !.pc = "done", !.req = Consumed(req),
                                               !.resp = RespDatabase]]
  /\ UNCHANGED <<records, autoinc, snapshot_enabled, last_snapshot_ordinal, files>>
  /\ UNCHANGED <<sub_vars, client_vars>>

\* the INSERT of Storage::write returns a sqlx::Error: Err(WriteError::Sql)
write_insert_error(w) ==
  /\ wr[w].pc = "insert"
  /\ wr' = [wr EXCEPT ![w].pc = "done", ![w].req = Consumed(wr[w].req),
                      ![w].resp = RespDatabase]
  /\ UNCHANGED <<records, autoinc, snapshot_enabled, last_snapshot_ordinal, files>>
  /\ UNCHANGED <<sub_vars, client_vars>>

\* Snapshot::should_snapshot: the outcome is "no", "yes" (the counter is set
\* to current_ordinal) or "panic".  current_ordinal - last is a u64
\* subtraction: below zero it panics in a build with overflow checks and wraps
\* to a value near 2^64 (>= any interval) in a build without.
ShouldSnapshotOutcomes(current_ordinal, last) ==
  IF current_ordinal = 0 THEN {"no"}
  ELSE IF current_ordinal < last THEN {"panic", "yes"}
  ELSE IF current_ordinal - last >= SnapshotInterval THEN {"yes"}
  ELSE {"no"}

\* Storage::write: the INSERT ... ON CONFLICT(ordinal) DO UPDATE has run; a
\* storage without snapshots returns Ok(written_ordinal)
write_insert(w) ==
  LET new_ordinal == NewOrdinal(wr[w].req, wr[w].latest_ordinal)
      rec == Rec(wr[w].req.key, wr[w].req.value)
      written_ordinal == new_ordinal
  IN /\ wr[w].pc = "insert"
     /\ records' = Upsert(records, new_ordinal, rec)
     /\ autoinc' = Max2(autoinc, new_ordinal)
     /\ IF snapshot_enabled
        THEN wr' = [wr EXCEPT ![w].pc = "should_snapshot",
                              ![w].req = Consumed(wr[w].req),
                              ![w].written = written_ordinal]
        ELSE wr' = [wr EXCEPT ![w].pc = "done",
                              ![w].req = Consumed(wr[w].req),
                              ![w].written = written_ordinal,
                              ![w].resp = RespAccepted(written_ordinal)]
     /\ UNCHANGED <<snapshot_enabled, last_snapshot_ordinal, files>>
     /\ UNCHANGED <<sub_vars, client_vars>>

\* Storage::write after the INSERT: snapshot.should_snapshot(written_ordinal),
\* called by the task of this write while the tasks of other writes run
should_snapshot(w) ==
  /\ wr[w].pc = "should_snapshot"
  /\ \E outcome \in ShouldSnapshotOutcomes(wr[w].written, last_snapshot_ordinal) :
       CASE outcome = "yes" ->
              /\ last_snapshot_ordinal' = wr[w].written
              /\ wr' = [wr EXCEPT ![w].pc = "snapshot_query"]
         [] outcome = "no" ->
              /\ UNCHANGED last_snapshot_ordinal
              /\ wr' = [wr EXCEPT ![w].pc = "done",
                                  ![w].resp = RespAccepted(wr[w].written)]
         [] outcome = "panic" ->
              /\ UNCHANGED last_snapshot_ordinal
              /\ wr' = [wr EXCEPT ![w].pc = "aborted"]
  /\ UNCHANGED <<records, autoinc, snapshot_enabled, files>>
  /\ UNCHANGED <<sub_vars, client_vars>>

\* Storage::create_snapshot: the query of the map: rows
snapshot_query(w) ==
  /\ wr[w].pc = "snapshot_query"
  /\ wr' = [wr EXCEPT ![w].pc = "save_text", ![w].rows = SelectMapRows(records)]
  /\ UNCHANGED <<records, autoinc, snapshot_enabled, last_snapshot_ordinal, files>>
  /\ UNCHANGED <<sub_vars, client_vars>>

\* Snapshot::save_text
save_text(w) ==
  /\ wr[w].pc = "save_text"
  /\ files' = WriteFile(files, SnapshotLabel(wr[w].rows), "tmap", TextContent(wr[w].rows))
  /\ wr' = [wr EXCEPT ![w].pc = "save_binary"]
  /\ UNCHANGED <<records, autoinc, snapshot_enabled, last_snapshot_ordinal>>
  /\ UNCHANGED <<sub_vars, client_vars>>

\* Snapshot::save_binary up to the creation of the file: tokio::fs::write
\* opens the path with create and truncate before it writes the buffer
save_binary_create(w) ==
  /\ wr[w].pc = "save_binary"
  /\ files' = WriteFile(files, SnapshotLabel(wr[w].rows), "bmap", <<>>)
  /\ wr' = [wr EXCEPT ![w].pc = "save_binary_write"]
  /\ UNCHANGED <<records, autoinc, snapshot_enabled, last_snapshot_ordinal>>
  /\ UNCHANGED <<sub_vars, client_vars>>

\* Snapshot::save_binary: the buffer is in the file; Storage::write returns
\* Ok(written_ordinal)
save_binary(w) ==
  /\ wr[w].pc = "save_binary_write"
  /\ files' = WriteFile(files, SnapshotLabel(wr[w].rows), "bmap", BinaryContent(wr[w].rows))
  /\ wr' = [wr EXCEPT ![w].pc = "done", ![w].rows = <<>>,
                      ![w].resp = RespAccepted(wr[w].written)]
  /\ UNCHANGED <<records, autoinc, snapshot_enabled, last_snapshot_ordinal>>
  /\ UNCHANGED <<sub_vars, client_vars>>

\* the query or a file write of create_snapshot fails: Err(WriteError::Snapshot)
snapshot_error(w) ==
  /\ wr[w].pc \in {"snapshot_query", "save_text", "save_binary", "save_binary_write"}
  /\ wr' = [wr EXCEPT ![w].pc = "done", ![w].rows = <<>>, ![w].resp = RespSnapshot]
  /\ UNCHANGED <<records, autoinc, snapshot_enabled, last_snapshot_ordinal, files>>
  /\ UNCHANGED <<sub_vars, client_vars>>

\* the raw caller of a write stream has read the response (or the stream's
\* failure); its next request goes to a new call of Storage::write
write_return(w) ==
  /\ wr[w].pc \in {"done", "aborted"}
  /\ wr' = [wr EXCEPT ![w] = IdleWrite]
  /\ UNCHANGED <<records, autoinc, snapshot_enabled, last_snapshot_ordinal, files>>
  /\ UNCHANGED <<sub_vars, client_vars>>

(***************************************************************************)
(* Storage::subscribe_from (server/src/storage.rs).                        *)
(***************************************************************************)
RECURSIVE Pow2(_)
Pow2(n) == IF n = 0 THEN 1 ELSE 2 * Pow2(n - 1)

\* `ordinal as i64` of a u64: values from 2^(bits-1) on wrap to negative ones
AsI64(u) == IF u < Pow2(WordBits - 1) THEN u ELSE u - Pow2(WordBits)

\* WHERE ordinal > ?
AfterCursor(ord, cursor) == ord > cursor

\* SELECT ... FROM records WHERE ordinal > ? ORDER BY ordinal LIMIT n
RECURSIVE FetchRows(_, _, _)
FetchRows(recs, cursor, limit) ==
  LET later == {o \in DOMAIN recs : AfterCursor(o, cursor)}
  IN IF limit = 0 \/ later = {} THEN <<>>
     ELSE LET o == CHOOSE x \in later : \A y \in later : x <= y
          IN <<[ordinal |-> o, key |-> recs[o].key, value |-> recs[o].value]>>
             \o FetchRows(recs, o, limit - 1)

\* the cursor after a row has been yielded: ordinal = ord
CursorAfter(cursor, row) == row.ordinal

\* Subscribe(start_ordinal): the stream is created with its cursor at start
subscribe_from(start) ==
  /\ sub.pc = "closed"
  /\ sub' = [pc |-> "open", start |-> start, ordinal |-> AsI64(start), rows |-> <<>>]
  /\ delivered' = <<>>
  /\ UNCHANGED <<server_vars, client_vars>>

\* one poll of the loop: fetch the next batch (an empty batch sleeps 100 ms
\* and polls again, which changes nothing)
sub_fetch ==
  /\ sub.pc = "open"
  /\ sub.rows = <<>>
  /\ FetchRows(records, sub.ordinal, BatchLimit) # <<>>
  /\ sub' = [sub EXCEPT !.rows = FetchRows(records, sub.ordinal, BatchLimit)]
  /\ UNCHANGED <<delivered, server_vars, client_vars>>

\* the effect of one `yield` on the stream: the cursor moves to the row
YieldRow ==
  /\ sub.pc = "open"
  /\ sub.rows # <<>>
  /\ sub' = [sub EXCEPT !.ordinal = CursorAfter(sub.ordinal, Head(sub.rows)),
                        !.rows = Tail(sub.rows)]
  /\ delivered' = Append(delivered, Head(sub.rows))

\* a raw subscriber takes the next record of the stream
sub_yield ==
  /\ YieldRow
  /\ UNCHANGED <<server_vars, client_vars>>

(***************************************************************************)
(* Specification of the store: two raw write streams and append.           *)
(***************************************************************************)
EmptyRecords == [o \in {} |-> Rec(<<>>, <<>>)]
EmptyCache == [k \in {} |-> <<>>]
ClosedSub == [pc |-> "closed", start |-> 0, ordinal |-> 0, rows |-> <<>>]
\* what the caller's last cache read returned; none yet
NoRead == [op |-> "none", key |-> 0, found |-> FALSE, value |-> <<>>, count |-> 0]
IdleCall == [pc |-> "idle", op |-> "none", key |-> 0, value |-> <<>>, retries |-> 0,
             delay |-> 0, sent |-> 0, rejected |-> 0, request |-> NoReq,
             resp |-> NoResp, result |-> "none", read |-> NoRead]

\* (key, value) pairs written to the store: a map entry, its tombstone, a
\* record of another keyspace
StorePayloads == {Rec(KeyMap1, ValA), Rec(KeyMap1, ValEmpty), Rec(KeyJob, ValA)}
StoreRequests == {[ordinal |-> 1, key |-> p.key, value |-> p.value, latest_known |-> lk] :
                    p \in StorePayloads, lk \in 0..(MaxOrd - 1)}

\* a new server on an empty database, a LogMap right after connect()
InitCommon ==
  /\ records = EmptyRecords
  /\ autoinc = 0
  /\ last_snapshot_ordinal = 0
  /\ files = {}
  /\ wr = [w \in Streams |-> IdleWrite]
  /\ sub = ClosedSub
  /\ delivered = <<>>
  /\ cache = EmptyCache
  /\ latest_known = 0
  /\ last_sync = 0
  /\ next_ordinal = 1
  /\ call = [c \in Callers |-> IdleCall]
  /\ sync = "start"

\* the server as server/src/main.rs builds it: Storage::new, no snapshots
Init ==
  /\ InitCommon
  /\ snapshot_enabled = FALSE

Next ==
  \/ \E p \in StorePayloads : append(p.key, p.value)
  \/ \E w \in RawWriters, req \in StoreRequests : write_select(w, req)
  \/ \E w \in RawWriters, req \in StoreRequests : write_select_error(w, req)
  \/ \E w \in RawWriters : write_insert(w)
  \/ \E w \in RawWriters : write_insert_error(w)
  \/ \E w \in RawWriters : write_return(w)

Spec == Init /\ [][Next]_vars

(***************************************************************************)
(* Specification of the store of server/src/main.rs under write requests   *)
(* that propose every kind of ordinal: none, the next one, one in use, one *)
(* far ahead.                                                              *)
(***************************************************************************)
ProposedOrdinals == {0, 1, MaxOrd + 1}
AdvisoryPayloads == {Rec(KeyMap1, ValA), Rec(KeyJob, ValA)}
AdvisoryRequests == {[ordinal |-> o, key |-> p.key, value |-> p.value, latest_known |-> lk] :
                       o \in ProposedOrdinals, p \in AdvisoryPayloads, lk \in 0..(MaxOrd - 1)}

AdvisoryNext ==
  \/ \E w \in RawWriters, req \in AdvisoryRequests : write_select(w, req)
  \/ \E w \in RawWriters, req \in AdvisoryRequests : write_select_error(w, req)
  \/ \E w \in RawWriters : write_insert(w)
  \/ \E w \in RawWriters : write_insert_error(w)
  \/ \E w \in RawWriters : write_return(w)

AdvisorySpec == Init /\ [][AdvisoryNext]_vars

(***************************************************************************)
(* Specification of the store built by Storage::with_snapshot: two raw     *)
(* write streams, every accepted write may produce a snapshot.             *)
(***************************************************************************)
SnapPayloads == {Rec(KeyMap1, ValA), Rec(KeyJob, ValA)}
SnapRequests == {[ordinal |-> 1, key |-> p.key, value |-> p.value, latest_known |-> lk] :
                   p \in SnapPayloads, lk \in 0..(MaxOrd - 1)}

SnapInit ==
  /\ InitCommon
  /\ snapshot_enabled = TRUE

SnapNext ==
  \/ \E w \in RawWriters, req \in SnapRequests : write_select(w, req)
  \/ \E w \in RawWriters : write_insert(w)
  \/ \E w \in RawWriters : should_snapshot(w)
  \/ \E w \in RawWriters : snapshot_query(w)
  \/ \E w \in RawWriters : save_text(w)
  \/ \E w \in RawWriters : save_binary_create(w)
  \/ \E w \in RawWriters : save_binary(w)
  \/ \E w \in RawWriters : snapshot_error(w)
  \/ \E w \in RawWriters : write_return(w)

SnapSpec == SnapInit /\ [][SnapNext]_vars

(***************************************************************************)
(* Specification of a subscription that runs while records are written:    *)
(* one raw write stream, append, one raw subscriber.                       *)
(***************************************************************************)
\* the start_ordinal of a SubscribeRequest: small ones, and the first u64
\* above i64::MAX
StartOrdinals == 0..MaxStart \cup {Pow2(WordBits - 1)}

SubNext ==
  \/ \E p \in StorePayloads : append(p.key, p.value)
  \/ \E req \in StoreRequests : write_select("w1", req)
  \/ write_insert("w1")
  \/ write_return("w1")
  \/ \E start \in StartOrdinals : subscribe_from(start)
  \/ sub_fetch
  \/ sub_yield

SubSpec == Init /\ [][SubNext]_vars

(***************************************************************************)
(* Client cache and sync worker (log-map/src/cache.rs, sync.rs).           *)
(***************************************************************************)
\* str::strip_prefix(MAP_PREFIX): the tail after "map:", compared byte by byte
HasMapPrefix(key) ==
  /\ Len(key) >= Len(MAP_PREFIX)
  /\ SubSeq(key, 1, Len(MAP_PREFIX)) = MAP_PREFIX

StripPrefix(key) == SubSeq(key, Len(MAP_PREFIX) + 1, Len(key))

IsDigit(b) == b \in 48..57

RECURSIVE DigitsValue(_, _)
DigitsValue(digits, acc) ==
  IF digits = <<>> THEN acc
  ELSE DigitsValue(Tail(digits), acc * 10 + (Head(digits) - 48))

\* str::parse::<i64>: an optional '+' or '-', then at least one decimal digit
\* (tails short enough not to overflow an i64)
ParseI64(tail) ==
  LET signed == tail # <<>> /\ Head(tail) \in {43, 45}
      digits == IF signed THEN Tail(tail) ELSE tail
  IN IF digits = <<>> \/ \E i \in 1..Len(digits) : ~IsDigit(digits[i])
     THEN [ok |-> FALSE, value |-> 0]
     ELSE [ok |-> TRUE,
           value |-> IF signed /\ Head(tail) = 45
                     THEN 0 - DigitsValue(digits, 0) ELSE DigitsValue(digits, 0)]

\* a key with the prefix whose tail is no i64 decoded as key 0
DecodeKeyLenient(key) ==
  IF HasMapPrefix(key)
  THEN [ok |-> TRUE, value |-> ParseI64(StripPrefix(key)).value]
  ELSE [ok |-> FALSE, value |-> 0]

\* the logical key of a log key: Some(k) when the prefix matches and the tail parses
DecodeKey(key) ==
  IF HasMapPrefix(key) THEN ParseI64(StripPrefix(key))
  ELSE [ok |-> FALSE, value |-> 0]

RECURSIVE Digits(_)
Digits(n) == IF n < 10 THEN <<48 + n>> ELSE Digits(n \div 10) \o <<48 + (n % 10)>>

\* format!("{}{}", MAP_PREFIX, key) for an i64 key
EncodeKey(k) == MAP_PREFIX \o (IF k < 0 THEN <<45>> \o Digits(0 - k) ELSE Digits(k))

\* Cache::insert, Cache::remove
CacheInsert(c, k, v) == [x \in DOMAIN c \cup {k} |-> IF x = k THEN v ELSE c[x]]
CacheRemove(c, k) == [x \in DOMAIN c \ {k} |-> c[x]]

\* a tombstone is stored like any other value
CacheAfterKeepTombstone(c, k, value) == CacheInsert(c, k, Lossy(value))

\* the cache part of process_record for a record whose key decoded to k
CacheAfter(c, k, value) ==
  IF value = <<>> THEN CacheRemove(c, k) ELSE CacheInsert(c, k, Lossy(value))

\* the counter moves to the ordinal after the record's
FetchMaxNext(current, ordinal) == Max2(current, ordinal + 1)

\* AtomicU64::fetch_max
FetchMax(current, ordinal) == Max2(current, ordinal)

\* GetSnapshot on a server without a snapshot to serve: Ok(None) becomes
\* ordinal 0 and empty data
NoSnapshotResponse == [snapshot_ordinal |-> 0, snapshot_data |-> <<>>]

\* Storage::get_latest_snapshot and KvServiceImpl::get_snapshot: the ordinal and
\* the bmap bytes of the latest snapshot when the storage has snapshots and
\* the latest ordinal has a bmap
GetSnapshotResponse ==
  LET latest == get_latest_snapshot(files)
  IN IF snapshot_enabled /\ latest.data # {}
     THEN [snapshot_ordinal |-> latest.ordinal,
           snapshot_data |-> CHOOSE data \in latest.data : TRUE]
     ELSE NoSnapshotResponse

\* the filter_map of initialize_with_snapshot: the entries whose key is map:
\* and an i64 and whose value, decoded lossily, is not empty
RECURSIVE ParsedEntries(_)
ParsedEntries(entries) ==
  IF entries = <<>> THEN <<>>
  ELSE LET parsed == DecodeKey(Head(entries).key)
           value == Lossy(Head(entries).value)
       IN (IF parsed.ok /\ value # <<>> THEN <<[key |-> parsed.value, value |-> value]>>
           ELSE <<>>)
          \o ParsedEntries(Tail(entries))

\* Cache::insert_all: every (key, value) of the list is inserted, in order
RECURSIVE InsertAll(_, _)
InsertAll(c, parsed) ==
  IF parsed = <<>> THEN c
  ELSE InsertAll(CacheInsert(c, Head(parsed).key, Head(parsed).value), Tail(parsed))

\* SyncTask::run up to the subscription: initialize_with_snapshot, the store of
\* last_sync, Subscribe(from); an undecodable snapshot ends run with
\* Error::Internal
sync_bootstrap ==
  /\ sync = "start"
  /\ LET response == GetSnapshotResponse
         loading == response.snapshot_ordinal > 0 /\ response.snapshot_data # <<>>
         decoded == load_from_bytes(response.snapshot_data)
         from == response.snapshot_ordinal
     IN IF loading /\ ~decoded.ok
        THEN /\ sync' = "stopped"
             /\ UNCHANGED <<sub_vars, cache, last_sync>>
        ELSE /\ cache' = IF loading THEN InsertAll(cache, ParsedEntries(decoded.records))
                         ELSE cache
             /\ last_sync' = from
             /\ sub' = [pc |-> "open", start |-> from, ordinal |-> AsI64(from), rows |-> <<>>]
             /\ delivered' = <<>>
             /\ sync' = "following"
  /\ UNCHANGED <<server_vars, latest_known, next_ordinal, call>>

\* the worker takes the next record of the stream: SyncTask::process_record
sync_receive ==
  /\ sync = "following"
  /\ YieldRow
  /\ LET record == Head(sub.rows)
         parsed == DecodeKey(record.key)
     IN IF parsed.ok
        THEN /\ last_sync' = FetchMax(last_sync, record.ordinal)
             /\ latest_known' = FetchMax(latest_known, record.ordinal)
             /\ cache' = CacheAfter(cache, parsed.value, record.value)
        ELSE UNCHANGED <<last_sync, latest_known, cache>>
  /\ UNCHANGED <<server_vars, next_ordinal, call, sync>>

\* the stream ends (next() yields None): the while loop is left and the loop
\* of run starts over at initialize_with_snapshot
sync_stream_end ==
  /\ sync = "following"
  /\ sync' = "start"
  /\ sub' = ClosedSub
  /\ UNCHANGED <<server_vars, delivered, cache, latest_known, last_sync, next_ordinal, call>>

\* the stream yields Err(status): run returns Err(Error::from(e)), the spawned
\* task prints the error and is over
sync_stream_error ==
  /\ sync = "following"
  /\ sync' = "stopped"
  /\ sub' = ClosedSub
  /\ UNCHANGED <<server_vars, delivered, cache, latest_known, last_sync, next_ordinal, call>>

\* GetSnapshot or Subscribe fails: `?` returns the error from run
sync_bootstrap_error ==
  /\ sync = "start"
  /\ sync' = "stopped"
  /\ UNCHANGED <<server_vars, sub_vars, cache, latest_known, last_sync, next_ordinal, call>>

(***************************************************************************)
(* LogMap::insert and LogMap::remove (log-map/src/map.rs).                 *)
(***************************************************************************)
\* the loop gives up at the fifth rejection only after one more request
BudgetSpentLate(retries) == retries > MAX_RETRIES

\* retries >= MAX_RETRIES
BudgetSpent(retries) == retries >= MAX_RETRIES

\* the WriteRequest one iteration of the loop builds
BuildRequest(key, value) ==
  [ordinal |-> next_ordinal, key |-> EncodeKey(key), value |-> value,
   latest_known |-> latest_known]

\* a lock that every caller gets at once
LockAlwaysFree == TRUE

\* the client lock is free: no caller is between its send and its response
LockFree == \A c \in Callers : call[c].pc # "sent"

\* insert(key, value) or remove(key) up to the first request: retries = 0,
\* delay = 100 ms, fetch_add, load, lock, send
call_start(c, op, key, value) ==
  /\ call[c].pc = "idle"
  /\ LockFree
  /\ wr[c].pc = "idle"
  /\ next_ordinal < MaxNextOrdinal
  /\ call' = [call EXCEPT ![c] = [IdleCall EXCEPT !.pc = "sent", !.op = op, !.key = key,
                !.value = value, !.retries = 0, !.delay = InitialDelay, !.sent = 1,
                !.request = BuildRequest(key, value)]]
  /\ next_ordinal' = next_ordinal + 1
  /\ UNCHANGED <<server_vars, sub_vars, cache, latest_known, last_sync, sync>>

insert(c, key, value) == call_start(c, "insert", key, value)

remove(c, key) == call_start(c, "remove", key, <<>>)

\* the response has been read and the lock dropped: Ok on accepted, else count
\* the retry, give up at MAX_RETRIES, else sync_now (a no-op) and sleep
call_receive(c) ==
  /\ call[c].pc = "sent"
  /\ wr[c].pc = "done"
  /\ LET response == wr[c].resp
         retries == call[c].retries + 1
     IN IF response.accepted
        THEN call' = [call EXCEPT ![c].pc = "returned", ![c].resp = response,
                                  ![c].result = "Ok"]
        ELSE IF BudgetSpent(retries)
        THEN call' = [call EXCEPT ![c].pc = "returned", ![c].resp = response,
                                  ![c].retries = retries,
                                  ![c].rejected = call[c].rejected + 1,
                                  ![c].result = "Conflict"]
        ELSE call' = [call EXCEPT ![c].pc = "sleep", ![c].resp = response,
                                  ![c].retries = retries,
                                  ![c].rejected = call[c].rejected + 1]
  /\ wr' = [wr EXCEPT ![c] = IdleWrite]
  /\ UNCHANGED <<records, autoinc, snapshot_enabled, last_snapshot_ordinal, files>>
  /\ UNCHANGED <<sub_vars, cache, latest_known, last_sync, next_ordinal, sync>>

\* the next iteration keeps the delay of the last one
CallRetrySameDelay(c) ==
  /\ call[c].pc = "sleep"
  /\ LockFree
  /\ next_ordinal < MaxNextOrdinal
  /\ call' = [call EXCEPT ![c].pc = "sent",
                          ![c].sent = call[c].sent + 1,
                          ![c].request = BuildRequest(call[c].key, call[c].value)]
  /\ next_ordinal' = next_ordinal + 1
  /\ UNCHANGED <<server_vars, sub_vars, cache, latest_known, last_sync, sync>>

\* the sleep is over: delay *= 2 and the next iteration sends its request
call_retry(c) ==
  /\ call[c].pc = "sleep"
  /\ LockFree
  /\ next_ordinal < MaxNextOrdinal
  /\ call' = [call EXCEPT ![c].pc = "sent", ![c].delay = call[c].delay * 2,
                          ![c].sent = call[c].sent + 1,
                          ![c].request = BuildRequest(call[c].key, call[c].value)]
  /\ next_ordinal' = next_ordinal + 1
  /\ UNCHANGED <<server_vars, sub_vars, cache, latest_known, last_sync, sync>>

\* insert or remove of a LogMap shared by several callers, up to the request
\* of the first iteration: retries = 0, delay = 100 ms, fetch_add, load; the
\* caller then waits for the client lock
call_build(c, op, key, value) ==
  /\ call[c].pc = "idle"
  /\ next_ordinal < MaxNextOrdinal
  /\ call' = [call EXCEPT ![c] = [IdleCall EXCEPT !.pc = "locking", !.op = op, !.key = key,
                !.value = value, !.retries = 0, !.delay = InitialDelay,
                !.request = BuildRequest(key, value)]]
  /\ next_ordinal' = next_ordinal + 1
  /\ UNCHANGED <<server_vars, sub_vars, cache, latest_known, last_sync, sync>>

\* client.lock().await returns and the request is sent on a new write stream
call_lock(c) ==
  /\ call[c].pc = "locking"
  /\ LockFree
  /\ wr[c].pc = "idle"
  /\ call' = [call EXCEPT ![c].pc = "sent", ![c].sent = call[c].sent + 1]
  /\ UNCHANGED <<server_vars, sub_vars, cache, latest_known, last_sync, next_ordinal, sync>>

\* the sleep is over: delay *= 2, the next iteration builds its request and
\* waits for the client lock
call_rebuild(c) ==
  /\ call[c].pc = "sleep"
  /\ next_ordinal < MaxNextOrdinal
  /\ call' = [call EXCEPT ![c].pc = "locking", ![c].delay = call[c].delay * 2,
                          ![c].request = BuildRequest(call[c].key, call[c].value)]
  /\ next_ordinal' = next_ordinal + 1
  /\ UNCHANGED <<server_vars, sub_vars, cache, latest_known, last_sync, sync>>

\* the caller has its Result; the LogMap is ready for the next call
call_return(c) ==
  /\ call[c].pc = "returned"
  /\ call' = [call EXCEPT ![c] = IdleCall]
  /\ UNCHANGED <<server_vars, sub_vars, cache, latest_known, last_sync, next_ordinal, sync>>

\* the caller is between two calls of insert or remove and may read the map
ReadReady(c) == call[c].pc \in {"idle", "returned"}

\* a cache read returns: only the caller's own result changes
ReadReturns(c, result) ==
  /\ ReadReady(c)
  /\ call' = [call EXCEPT ![c].read = result]
  /\ UNCHANGED <<server_vars, sub_vars, cache, latest_known, last_sync, next_ordinal, sync>>

\* a get that takes a fresh ordinal as insert does
GetWithFetchAdd(c, key) ==
  /\ ReadReady(c)
  /\ next_ordinal < MaxNextOrdinal
  /\ call' = [call EXCEPT ![c].read =
                [NoRead EXCEPT !.op = "get", !.key = key, !.found = key \in DOMAIN cache,
                               !.value = IF key \in DOMAIN cache THEN cache[key] ELSE <<>>]]
  /\ next_ordinal' = next_ordinal + 1
  /\ UNCHANGED <<server_vars, sub_vars, cache, latest_known, last_sync, sync>>

\* LogMap::get: Ok(cache.get(&key)), Some(value) or None
get(c, key) ==
  ReadReturns(c, [NoRead EXCEPT !.op = "get", !.key = key, !.found = key \in DOMAIN cache,
                                !.value = IF key \in DOMAIN cache THEN cache[key] ELSE <<>>])

\* LogMap::contains_key
contains_key(c, key) ==
  ReadReturns(c, [NoRead EXCEPT !.op = "contains_key", !.key = key,
                                !.found = key \in DOMAIN cache])

\* LogMap::len
len(c) ==
  ReadReturns(c, [NoRead EXCEPT !.op = "len", !.count = Cardinality(DOMAIN cache)])

\* LogMap::is_empty; found tells that the map has an entry
is_empty(c) ==
  ReadReturns(c, [NoRead EXCEPT !.op = "is_empty", !.found = DOMAIN cache # {}])

\* the server reads the request a caller has sent: Storage::write begins
serve_select(c) ==
  /\ call[c].pc = "sent"
  /\ write_select(c, call[c].request)

\* the first query of that call fails
serve_select_error(c) ==
  /\ call[c].pc = "sent"
  /\ write_select_error(c, call[c].request)

(***************************************************************************)
(* Selection of the latest snapshot (server/src/snapshot.rs).              *)
(***************************************************************************)
\* "snapshot_", ".tmap", ".bmap", '_'
SNAPSHOT_PREFIX == <<115, 110, 97, 112, 115, 104, 111, 116, 95>>
DotTmap == <<46, 116, 109, 97, 112>>
DotBmap == <<46, 98, 109, 97, 112>>
Underscore == 95

\* snapshot_path: format!("snapshot_{}.{}", ordinal, extension)
snapshot_path(ordinal, ext) ==
  SNAPSHOT_PREFIX \o Digits(ordinal) \o (IF ext = "tmap" THEN DotTmap ELSE DotBmap)

StartsWith(str, prefix) ==
  /\ Len(str) >= Len(prefix)
  /\ SubSeq(str, 1, Len(prefix)) = prefix

EndsWith(str, suffix) ==
  /\ Len(str) >= Len(suffix)
  /\ SubSeq(str, Len(str) - Len(suffix) + 1, Len(str)) = suffix

\* rest.split('_').next(): the part of rest before its first '_', all of rest
\* when it has none
RECURSIVE FirstSplit(_)
FirstSplit(rest) ==
  IF rest = <<>> \/ Head(rest) = Underscore THEN <<>>
  ELSE <<Head(rest)>> \o FirstSplit(Tail(rest))

\* str.parse::<u64>(): an optional '+' (byte 43) and one or more decimal digits
ParseU64(str) ==
  LET digits == IF str # <<>> /\ Head(str) = 43 THEN Tail(str) ELSE str
  IN IF digits # <<>> /\ \A i \in 1..Len(digits) : IsDigit(digits[i])
     THEN [ok |-> TRUE, value |-> DigitsValue(digits, 0)]
     ELSE [ok |-> FALSE, value |-> 0]

\* one pass of the loop of read_snapshot_entries over the directory entry f;
\* tmap and bmap hold the selected file (Some) or nothing (None)
ScanEntry(acc, f) ==
  LET name_str == snapshot_path(f.ordinal, f.ext)
  IN IF ~StartsWith(name_str, SNAPSHOT_PREFIX) THEN acc
     ELSE LET rest == SubSeq(name_str, Len(SNAPSHOT_PREFIX) + 1, Len(name_str))
              parsed == ParseU64(FirstSplit(rest))
          IN IF ~parsed.ok THEN acc
             ELSE LET ordinal == parsed.value
                      reset == IF ordinal > acc.max_ordinal
                               THEN [tmap |-> {}, bmap |-> {}, max_ordinal |-> ordinal]
                               ELSE acc
                  IN IF ordinal # reset.max_ordinal THEN reset
                     ELSE IF EndsWith(name_str, DotTmap) THEN [reset EXCEPT !.tmap = {f}]
                     ELSE IF EndsWith(name_str, DotBmap) THEN [reset EXCEPT !.bmap = {f}]
                     ELSE reset

\* Snapshot::read_snapshot_entries over the entries in the order read_dir
\* yields them
RECURSIVE ScanEntries(_, _)
ScanEntries(acc, entries) ==
  IF entries = <<>> THEN acc
  ELSE ScanEntries(ScanEntry(acc, Head(entries)), Tail(entries))

read_snapshot_entries(entries) ==
  LET found == ScanEntries([tmap |-> {}, bmap |-> {}, max_ordinal |-> 0], entries)
  IN [tmap |-> found.tmap, bmap |-> found.bmap]

\* the orders in which read_dir can yield the files of a directory
DirOrders(dir) ==
  {order \in [1..Cardinality(dir) -> dir] :
     \A i, j \in 1..Cardinality(dir) : order[i] = order[j] => i = j}

\* the decoding part of Snapshot::load_binary on the bytes read from the
\* selected file: an error on a wrong magic or version, a panic when a slice
\* or an index passes the end of the data
DecodeBinary(data) ==
  IF Len(data) < 4 THEN [outcome |-> "panic", records |-> <<>>]
  ELSE IF SubSeq(data, 1, 4) # BMAP_MAGIC
       THEN [outcome |-> "error", records |-> <<>>]
  ELSE IF Len(data) < 8 THEN [outcome |-> "panic", records |-> <<>>]
  ELSE IF U32At(data, 4) # BMAP_VERSION
       THEN [outcome |-> "error", records |-> <<>>]
  ELSE IF Len(data) < 12 THEN [outcome |-> "panic", records |-> <<>>]
  ELSE LET decoded == DecodeEntries(data, 12, U32At(data, 8))
       IN IF decoded.ok THEN [outcome |-> "ok", records |-> decoded.records]
          ELSE [outcome |-> "panic", records |-> <<>>]

\* Snapshot::load_binary: the records of the selected bmap, no records when
\* none is selected
load_binary(entries) ==
  LET selected == read_snapshot_entries(entries)
  IN IF selected.bmap = {} THEN [outcome |-> "ok", records |-> <<>>]
     ELSE DecodeBinary((CHOOSE f \in selected.bmap : TRUE).data)

(***************************************************************************)
(* Specification of the sync worker of one LogMap while records are        *)
(* written: one raw write stream, append, the worker.                      *)
(***************************************************************************)
\* an entry of key 1, its tombstone, an entry of key -2 whose value has an
\* invalid byte, a key with an unparseable tail
SyncPayloads == {Rec(KeyMap1, ValA), Rec(KeyMap1, ValEmpty), Rec(KeyMapNeg2, ValBad),
                 Rec(KeyMapX, ValA)}
SyncRequests == {[ordinal |-> 1, key |-> p.key, value |-> p.value, latest_known |-> lk] :
                   p \in SyncPayloads, lk \in 0..(MaxOrd - 1)}
\* the i64 keys the log keys above decode to
LogicalKeys == {1, -2}

SyncNext ==
  \/ \E p \in SyncPayloads : append(p.key, p.value)
  \/ \E req \in SyncRequests : write_select("w1", req)
  \/ write_insert("w1")
  \/ write_return("w1")
  \/ sync_bootstrap
  \/ sub_fetch
  \/ sync_receive

SyncSpec == Init /\ [][SyncNext]_vars

(***************************************************************************)
(* Specification of the sync worker behind one writer that has caught up:  *)
(* every write is accepted, the worker follows the log.                    *)
(***************************************************************************)
ProjectionRequests == {[ordinal |-> 1, key |-> p.key, value |-> p.value,
                        latest_known |-> MaxOrd - 1] : p \in SyncPayloads}

ProjectionNext ==
  \/ \E req \in ProjectionRequests : write_select("w1", req)
  \/ write_insert("w1")
  \/ write_return("w1")
  \/ sync_bootstrap
  \/ sub_fetch
  \/ sync_receive

ProjectionSpec == Init /\ [][ProjectionNext]_vars

(***************************************************************************)
(* Specification of the sync worker on a log shared with other users: one  *)
(* raw write stream that stores map entries, records of another keyspace   *)
(* and records whose key has the prefix and no i64 after it.               *)
(***************************************************************************)
ForeignPayloads == {Rec(KeyMap1, ValA), Rec(KeyMapX, ValA), Rec(KeyJob, ValA)}
ForeignRequests == {[ordinal |-> 1, key |-> p.key, value |-> p.value, latest_known |-> lk] :
                      p \in ForeignPayloads, lk \in 0..(MaxOrd - 1)}

ForeignNext ==
  \/ \E req \in ForeignRequests : write_select("w1", req)
  \/ write_insert("w1")
  \/ write_return("w1")
  \/ sync_bootstrap
  \/ sub_fetch
  \/ sync_receive

ForeignSpec == Init /\ [][ForeignNext]_vars

(***************************************************************************)
(* The sync worker next to two raw write streams, under fair scheduling:   *)
(* a write that has passed its check gets its INSERT, the subscription     *)
(* polls, the worker takes what the stream yields.                         *)
(***************************************************************************)
FairPayloads == {Rec(KeyMap1, ValA), Rec(KeyMap1, ValEmpty)}
FairRequests == {[ordinal |-> 1, key |-> p.key, value |-> p.value, latest_known |-> lk] :
                   p \in FairPayloads, lk \in 0..(MaxOrd - 1)}

FairNext ==
  \/ \E w \in RawWriters, req \in FairRequests : write_select(w, req)
  \/ \E w \in RawWriters : write_insert(w)
  \/ \E w \in RawWriters : write_return(w)
  \/ sync_bootstrap
  \/ sub_fetch
  \/ sync_receive

FairSpec ==
  /\ Init
  /\ [][FairNext]_vars
  /\ \A w \in RawWriters : WF_vars(write_insert(w))
  /\ WF_vars(sync_bootstrap)
  /\ WF_vars(sub_fetch)
  /\ WF_vars(sync_receive)

(***************************************************************************)
(* Specification of one LogMap (a caller and the sync worker) next to      *)
(* another writer of the same log, on the server main.rs builds.           *)
(***************************************************************************)
\* keys and values of the caller
CallKeys == {1}
CallValues == {ValA}
\* what the other writer writes
OtherPayloads == {Rec(KeyJob, ValA)}
OtherRequests == {[ordinal |-> 1, key |-> p.key, value |-> p.value, latest_known |-> lk] :
                    p \in OtherPayloads, lk \in 0..(MaxOrd - 1)}

ClientNext ==
  \/ \E c \in SoloCallers, key \in CallKeys, value \in CallValues : insert(c, key, value)
  \/ \E c \in SoloCallers, key \in CallKeys : remove(c, key)
  \/ \E c \in SoloCallers : serve_select(c)
  \/ \E c \in SoloCallers : serve_select_error(c)
  \/ \E c \in SoloCallers : write_insert(c)
  \/ \E c \in SoloCallers : call_receive(c)
  \/ \E c \in SoloCallers : call_retry(c)
  \/ \E c \in SoloCallers : call_return(c)
  \/ \E req \in OtherRequests : write_select("w1", req)
  \/ write_insert("w1")
  \/ write_return("w1")
  \/ sync_bootstrap
  \/ sub_fetch
  \/ sync_receive

ClientSpec == Init /\ [][ClientNext]_vars

(***************************************************************************)
(* Specification of one LogMap shared by two callers: each call builds its *)
(* request, waits for the client lock, sends and reads the response; the   *)
(* server's side of the write streams, the sync worker.                    *)
(***************************************************************************)
SharedNext ==
  \/ \E c \in Callers, key \in CallKeys, value \in CallValues :
        call_build(c, "insert", key, value)
  \/ \E c \in Callers, key \in CallKeys : call_build(c, "remove", key, <<>>)
  \/ \E c \in Callers : call_lock(c)
  \/ \E c \in Callers : serve_select(c)
  \/ \E c \in Callers : write_insert(c)
  \/ \E c \in Callers : call_receive(c)
  \/ \E c \in Callers : call_rebuild(c)
  \/ \E c \in Callers : call_return(c)
  \/ sync_bootstrap
  \/ sub_fetch
  \/ sync_receive

SharedSpec == Init /\ [][SharedNext]_vars

(***************************************************************************)
(* Matrix multiplication on a LogMap: the worker of `matrix-mul client`    *)
(* for a 1x1 product, the loader's and the starter's writes arriving on a  *)
(* raw write stream, the server, the sync worker of the worker's LogMap.   *)
(***************************************************************************)
START_KEY == 0
\* "start"
StartValue == <<115, 116, 97, 114, 116>>
\* the sizes given to set_size: A is m x n, B is n x p
Dims == [m |-> 1, n |-> 1, p |-> 1]
\* the rows load_matrices writes: A = [[2]], B = [[3]]
MatrixA == <<<<50>>>>
MatrixB == <<<<51>>>>

\* row i of A is at key -(i+1), row k of B at key -(m+k+1), C[i][j] at i*p+j+1
AKey(i) == 0 - (i + 1)
BKey(k) == 0 - (Dims.m + k + 1)
ResultKey(i, j) == i * Dims.p + j + 1
ResultKeys == 1..(Dims.m * Dims.p)

\* value.split(',') parsed as f64, for rows of one whole number
ParseRow(value) == <<DigitsValue(value, 0)>>

\* MatrixMul::is_complete: every result key is in the cache
is_complete ==
  /\ Dims.m * Dims.p # 0
  /\ \A idx \in ResultKeys : idx \in DOMAIN cache

\* try_compute_task: row i of A, empty when its key is not in the cache
RowA(i) == IF AKey(i) \in DOMAIN cache THEN ParseRow(cache[AKey(i)]) ELSE <<>>

\* try_compute_task: the elements j of the rows of B that are in the cache
RECURSIVE ColB(_, _)
ColB(j, k) ==
  IF k = Dims.n THEN <<>>
  ELSE (IF BKey(k) \in DOMAIN cache /\ j + 1 <= Len(ParseRow(cache[BKey(k)]))
        THEN <<ParseRow(cache[BKey(k)])[j + 1]>> ELSE <<>>) \o ColB(j, k + 1)

RECURSIVE DotProduct(_, _)
DotProduct(row_a, col_b) ==
  IF row_a = <<>> \/ col_b = <<>> THEN 0
  ELSE Head(row_a) * Head(col_b) + DotProduct(Tail(row_a), Tail(col_b))

\* one iteration of MatrixMul::work that finds a task: not complete, the task
\* picked at random is not computed, try_compute_task computes the sum from
\* the rows it finds and calls insert(key, sum.to_string())
work(c) ==
  /\ ~is_complete
  /\ \E i \in 0..(Dims.m - 1), j \in 0..(Dims.p - 1) :
       /\ ResultKey(i, j) \notin DOMAIN cache
       /\ call_start(c, "insert", ResultKey(i, j), Digits(DotProduct(RowA(i), ColB(j, 0))))

\* what `matrix-mul load` and then `matrix-mul start` write, in their order
MatrixWrites ==
  <<Rec(EncodeKey(AKey(0)), MatrixA[1]), Rec(EncodeKey(BKey(0)), MatrixB[1]),
    Rec(EncodeKey(START_KEY), StartValue)>>

\* how many of these writes are in the log
LoaderProgress ==
  Cardinality({n \in 1..Len(MatrixWrites) :
                 \E o \in DOMAIN records : records[o] = MatrixWrites[n]})

\* the next write of the loader or the starter, which have caught up
MatrixRequests ==
  {[ordinal |-> 1, key |-> MatrixWrites[n].key, value |-> MatrixWrites[n].value,
    latest_known |-> MaxOrd - 1] : n \in {LoaderProgress + 1} \cap (1..Len(MatrixWrites))}

MatrixNext ==
  \/ \E req \in MatrixRequests : write_select("w1", req)
  \/ write_insert("w1")
  \/ write_return("w1")
  \/ \E c \in SoloCallers : work(c)
  \/ \E c \in SoloCallers : serve_select(c)
  \/ \E c \in SoloCallers : write_insert(c)
  \/ \E c \in SoloCallers : call_receive(c)
  \/ \E c \in SoloCallers : call_retry(c)
  \/ \E c \in SoloCallers : call_return(c)
  \/ sync_bootstrap
  \/ sub_fetch
  \/ sync_receive

MatrixSpec == Init /\ [][MatrixNext]_vars

(***************************************************************************)
(* Specification of one LogMap and its server alone: the caller's inserts  *)
(* and removes, the server's side of its write stream with its database    *)
(* errors, the sync worker.  A request is rejected when the worker has not *)
(* yet processed the caller's earlier writes.                              *)
(***************************************************************************)
BackoffNext ==
  \/ \E c \in SoloCallers, key \in CallKeys, value \in CallValues : insert(c, key, value)
  \/ \E c \in SoloCallers, key \in CallKeys : remove(c, key)
  \/ \E c \in SoloCallers : serve_select(c)
  \/ \E c \in SoloCallers : serve_select_error(c)
  \/ \E c \in SoloCallers : write_insert(c)
  \/ \E c \in SoloCallers : call_receive(c)
  \/ \E c \in SoloCallers : call_retry(c)
  \/ \E c \in SoloCallers : call_return(c)
  \/ sync_bootstrap
  \/ sub_fetch
  \/ sync_receive

BackoffSpec == Init /\ [][BackoffNext]_vars

(***************************************************************************)
(* Specification of one LogMap whose caller reads the map between its      *)
(* calls of insert and remove: the caller, the server's side of its write  *)
(* stream, the sync worker.                                                *)
(***************************************************************************)
ReadKeys == {1, 2}

ReadNext ==
  \/ \E c \in SoloCallers, key \in CallKeys, value \in CallValues : insert(c, key, value)
  \/ \E c \in SoloCallers, key \in CallKeys : remove(c, key)
  \/ \E c \in SoloCallers : serve_select(c)
  \/ \E c \in SoloCallers : write_insert(c)
  \/ \E c \in SoloCallers : call_receive(c)
  \/ \E c \in SoloCallers : call_retry(c)
  \/ \E c \in SoloCallers : call_return(c)
  \/ \E c \in SoloCallers, key \in ReadKeys : get(c, key)
  \/ \E c \in SoloCallers, key \in ReadKeys : contains_key(c, key)
  \/ \E c \in SoloCallers : len(c)
  \/ \E c \in SoloCallers : is_empty(c)
  \/ sync_bootstrap
  \/ sub_fetch
  \/ sync_receive

ReadSpec == Init /\ [][ReadNext]_vars

(***************************************************************************)
(* Specification of the sync worker on a connection that can fail: one     *)
(* raw write stream, the worker, the end of the stream, stream and call    *)
(* errors.  The worker's own steps and the server's INSERT are weakly fair.*)
(***************************************************************************)
WorkerNext ==
  \/ \E req \in FairRequests : write_select("w1", req)
  \/ write_insert("w1")
  \/ write_return("w1")
  \/ sync_bootstrap
  \/ sync_bootstrap_error
  \/ sub_fetch
  \/ sync_receive
  \/ sync_stream_end
  \/ sync_stream_error

WorkerSpec ==
  /\ Init
  /\ [][WorkerNext]_vars
  /\ WF_vars(write_insert("w1"))
  /\ WF_vars(sync_bootstrap)
  /\ WF_vars(sub_fetch)
  /\ WF_vars(sync_receive)

(***************************************************************************)
(* Specification of a LogMap that connects to a server with snapshots: one *)
(* raw write stream, the production of snapshots, the sync worker.         *)
(***************************************************************************)
\* an entry of key 1, its tombstone, an entry of key -2 whose value has an
\* invalid byte, a record of another keyspace
BootPayloads == {Rec(KeyMap1, ValA), Rec(KeyMap1, ValEmpty), Rec(KeyMapNeg2, ValBad),
                 Rec(KeyJob, ValA)}
BootRequests == {[ordinal |-> 1, key |-> p.key, value |-> p.value, latest_known |-> lk] :
                   p \in BootPayloads, lk \in 0..(MaxOrd - 1)}

BootNext ==
  \/ \E req \in BootRequests : write_select("w1", req)
  \/ write_insert("w1")
  \/ should_snapshot("w1")
  \/ snapshot_query("w1")
  \/ save_text("w1")
  \/ save_binary_create("w1")
  \/ save_binary("w1")
  \/ write_return("w1")
  \/ sync_bootstrap
  \/ sub_fetch
  \/ sync_receive

BootSpec == SnapInit /\ [][BootNext]_vars

(***************************************************************************)
(* Specification of a LogMap that connects to a server whose snapshot      *)
(* directory holds one bmap left by an earlier run: a complete one, an     *)
(* empty one, or a damaged one.  One raw write stream, the production of   *)
(* snapshots, the sync worker.                                             *)
(***************************************************************************)
\* the snapshot an earlier run produced: one entry, labelled 1
EarlierRows == <<Rec(KeyMap1, ValA)>>
EarlierLabel == SnapshotLabel(EarlierRows)

\* every non-empty strict prefix of a valid encoding
StrictPrefixes(data) == {SubSeq(data, 1, n) : n \in 1..(Len(data) - 1)}

\* a valid encoding whose first byte is not 'B', one whose version is 2
BadMagic(data) == [data EXCEPT ![1] = 88]
BadVersion(data) == [data EXCEPT ![5] = 2]

\* the bmap contents that must not decode
DamagedData ==
  StrictPrefixes(BinaryContent(EarlierRows)) \cup StrictPrefixes(BinaryContent(<<>>))
    \cup {BadMagic(BinaryContent(EarlierRows)), BadVersion(BinaryContent(EarlierRows))}

DamagedPayloads == {Rec(KeyMap1, ValA), Rec(KeyJob, ValA)}
DamagedRequests == {[ordinal |-> 1, key |-> p.key, value |-> p.value, latest_known |-> lk] :
                      p \in DamagedPayloads, lk \in 0..(MaxOrd - 1)}

DamagedInit ==
  /\ records = EmptyRecords
  /\ autoinc = 0
  /\ snapshot_enabled = TRUE
  /\ last_snapshot_ordinal = 0
  /\ \E data \in DamagedData \cup {BinaryContent(EarlierRows), <<>>} :
       files = {[ordinal |-> EarlierLabel, ext |-> "bmap", data |-> data]}
  /\ wr = [w \in Streams |-> IdleWrite]
  /\ sub = ClosedSub
  /\ delivered = <<>>
  /\ cache = EmptyCache
  /\ latest_known = 0
  /\ last_sync = 0
  /\ next_ordinal = 1
  /\ call = [c \in Callers |-> IdleCall]
  /\ sync = "start"

DamagedNext ==
  \/ \E req \in DamagedRequests : write_select("w1", req)
  \/ write_insert("w1")
  \/ should_snapshot("w1")
  \/ snapshot_query("w1")
  \/ save_text("w1")
  \/ save_binary_create("w1")
  \/ save_binary("w1")
  \/ write_return("w1")
  \/ sync_bootstrap
  \/ sub_fetch
  \/ sync_receive

DamagedSpec == DamagedInit /\ [][DamagedNext]_vars

(***************************************************************************)
(* Properties of the store.                                                *)
(***************************************************************************)
Done(w) == wr[w].pc = "done"
Accepted(w) == Done(w) /\ wr[w].resp.accepted
Conflicted(w) == Done(w) /\ wr[w].resp.error = "Conflict"

\* the step is the first query of a call of Storage::write on stream w, and
\* the query succeeded
SelectStep(w) ==
  /\ wr[w].pc = "idle"
  /\ wr'[w].pc # "idle"
  /\ wr'[w].resp.error # "Database"

\* the step is the INSERT of a call of Storage::write on stream w, and the
\* INSERT succeeded
InsertStep(w) ==
  /\ wr[w].pc = "insert"
  /\ wr'[w].pc # "insert"
  /\ wr'[w].resp.error # "Database"

\* C1: CC soundness.  Of two writes that carry the same latest_known = L, one
\* issued against a log whose highest ordinal is L and accepted, the other,
\* issued when the highest ordinal was L or more, is not accepted: it is
\* answered with a conflict that reports an ordinal L' >= L.
C1_CCSoundness ==
  \A a, b \in RawWriters :
    ( /\ a # b
      /\ Accepted(a) /\ Done(b)
      /\ wr[a].req.latest_known = wr[b].req.latest_known
      /\ wr[a].latest_ordinal = wr[a].req.latest_known
      /\ wr[b].latest_ordinal >= wr[a].latest_ordinal
      /\ wr[b].resp.error # "Database" )
    => ( /\ ~wr[b].resp.accepted
         /\ wr[b].resp.error = "Conflict"
         /\ wr[b].resp.assigned_ordinal >= wr[b].req.latest_known )

\* C2: a write whose latest_known is below the highest ordinal L of the log is
\* answered Conflict(L) with exactly that L, and the call changes neither the
\* table nor the snapshot counter nor the snapshot directory.
C2_StaleWriteRejected ==
  [][ \A w \in RawWriters :
        ( SelectStep(w) /\ wr'[w].req.latest_known < MaxOrdinal(records) )
        => ( /\ wr'[w].pc = "done"
             /\ wr'[w].resp = RespConflict(MaxOrdinal(records))
             /\ records' = records
             /\ autoinc' = autoinc
             /\ last_snapshot_ordinal' = last_snapshot_ordinal
             /\ files' = files ) ]_vars

\* C2 witness: a stale write has been answered with the current highest
\* ordinal while the store holds a snapshot
C2_Witness ==
  \E w \in RawWriters :
    /\ Conflicted(w)
    /\ wr[w].req.latest_known < wr[w].resp.assigned_ordinal
    /\ wr[w].resp.assigned_ordinal = MaxOrdinal(records)
    /\ files # {}

\* C3: a write whose latest_known is at least the highest ordinal L of the log
\* goes on to the INSERT, and the INSERT on a log whose highest ordinal is
\* (still) L adds exactly one record, at ordinal L + 1 with the request's key
\* and value, and is answered Accepted(L + 1).
C3_FreshWriteAppends ==
  [][ \A w \in RawWriters :
        /\ ( SelectStep(w) /\ wr'[w].req.latest_known >= MaxOrdinal(records) )
           => ( /\ wr'[w].pc = "insert"
                /\ wr'[w].latest_ordinal = MaxOrdinal(records)
                /\ records' = records )
        /\ ( InsertStep(w) /\ MaxOrdinal(records) = wr[w].latest_ordinal )
           => LET L == MaxOrdinal(records)
              IN /\ DOMAIN records' = DOMAIN records \cup {L + 1}
                 /\ L + 1 \notin DOMAIN records
                 /\ \A o \in DOMAIN records : records'[o] = records[o]
                 /\ records'[L + 1] = Rec(wr[w].req.key, wr[w].req.value)
                 /\ wr'[w].pc = "done"
                 /\ wr'[w].resp = RespAccepted(L + 1) ]_vars

\* C3 witness: a write with latest_known above the highest ordinal has been
\* accepted, and the first write to the empty log got ordinal 1
C3_Witness ==
  \E w \in RawWriters :
    /\ Accepted(w)
    /\ wr[w].req.latest_known > wr[w].latest_ordinal
    /\ wr[w].latest_ordinal = 0
    /\ wr[w].resp.assigned_ordinal = 1
    /\ 1 \in DOMAIN records

\* C4: once a record is persisted at ordinal n, its key and value never change.
C4_RecordsImmutable ==
  [][ \A n \in DOMAIN records :
        n \in DOMAIN records' /\ records'[n] = records[n] ]_vars

\* C5: the ordinals present in the log are exactly 1..n for some n >= 0.
C5_GapFree == DOMAIN records = 1..Cardinality(DOMAIN records)

\* C5 witness: the log is full after appends and writes, one of them rejected
C5_Witness ==
  /\ Cardinality(DOMAIN records) = MaxOrd
  /\ autoinc = MaxOrd
  /\ \E a, b \in RawWriters : Conflicted(a) /\ Accepted(b)

\* C6: a subscription from any start_ordinal s delivers the ordinals s+1,
\* s+2, s+3, ... in this order, none skipped and none twice.
C6_StreamOrdinals ==
  \A i \in 1..Len(delivered) : delivered[i].ordinal = sub.start + i

(***************************************************************************)
(* Properties of the client.                                               *)
(***************************************************************************)
\* the worker has processed exactly the log records with ordinals 1..n
ProcessedLog(n) ==
  /\ sync = "following"
  /\ sub.start = 0
  /\ Len(delivered) = n
  /\ \A i \in 1..n :
       /\ i \in DOMAIN records
       /\ delivered[i] = [ordinal |-> i, key |-> records[i].key, value |-> records[i].value]

\* the ordinals <= n whose record's key decodes to k
OrdinalsOf(recs, n, k) ==
  {o \in DOMAIN recs : o <= n /\ DecodeKey(recs[o].key).ok
                              /\ DecodeKey(recs[o].key).value = k}

\* the cache holds for k what the highest-ordinal record <= n of k says
AgreesOn(recs, n, k) ==
  LET os == OrdinalsOf(recs, n, k)
  IN IF os # {} /\ recs[MaxOf(os)].value # <<>>
     THEN k \in DOMAIN cache /\ cache[k] = Lossy(recs[MaxOf(os)].value)
     ELSE k \notin DOMAIN cache

\* C7: cache projection.  Whenever the worker, subscribed from 0 without a
\* snapshot, has processed exactly the log records 1..n, the cache contains k
\* iff the highest-ordinal record <= n whose key decodes to k has a non-empty
\* value, and maps k to that value (decoded lossily).
C7_CacheProjection ==
  \A n \in 0..MaxOrd :
    ProcessedLog(n) =>
      /\ DOMAIN cache \subseteq LogicalKeys
      /\ \A k \in LogicalKeys : AgreesOn(records, n, k)

\* C7 witness: the worker has processed three records: an entry of key 1, an
\* entry of key -2 and then the tombstone of key 1
C7_Witness ==
  /\ ProcessedLog(3)
  /\ records[1] = Rec(KeyMap1, ValA)
  /\ records[2] = Rec(KeyMapNeg2, ValBad)
  /\ records[3] = Rec(KeyMap1, ValEmpty)
  /\ DOMAIN cache = {-2}

\* C8: eventual consistency.  From some point on, for every logical key the
\* cache holds the value of the key's highest-ordinal record in the log (the
\* last accepted write to the key), or lacks the key when that record is a
\* tombstone.
C8_EventualConsistency ==
  <>[](\A k \in LogicalKeys : AgreesOn(records, MaxOrdinal(records), k))

\* C9: retry budget.  A call ends in Conflict(5) iff it has received exactly
\* five non-accepted responses; it returns Ok on the first accepted response;
\* it never sends more than five requests.
C9_RetryBudget ==
  \A c \in Callers :
    /\ (call[c].result = "Conflict") <=> (call[c].rejected = MAX_RETRIES)
    /\ (call[c].result = "Conflict") => (call[c].pc = "returned" /\ call[c].retries = MAX_RETRIES)
    /\ (call[c].result = "Ok") =>
          (call[c].pc = "returned" /\ call[c].resp.accepted
             /\ call[c].sent = call[c].rejected + 1)
    /\ (call[c].pc = "returned") => (call[c].result \in {"Ok", "Conflict"})
    /\ call[c].sent <= MAX_RETRIES
    /\ call[c].rejected <= MAX_RETRIES

\* C9 witness: a call has returned Conflict(5) after five rejections
C9_Witness ==
  \E c \in Callers :
    /\ call[c].pc = "returned"
    /\ call[c].result = "Conflict"
    /\ call[c].rejected = 5
    /\ call[c].sent = 5

\* C10: the request a call sends after a rejection carries a latest_known that
\* is at least the latest ordinal the rejecting response reported.
C10_CatchUpBeforeRetry ==
  [][ \A c \in Callers :
        ( call[c].pc = "sleep" /\ call'[c].pc = "sent" )
        => call'[c].request.latest_known >= call[c].resp.assigned_ordinal ]_vars

\* C11: the client retries only for a Conflict.  A call waits for its next
\* attempt only after a response whose error is Conflict; a response that is
\* not accepted and carries another error ends the call.
C11_RetryOnlyOnConflict ==
  \A c \in Callers : (call[c].pc = "sleep") => (call[c].resp.error = "Conflict")

\* C12: latest_known is the highest ordinal the client has observed through
\* its subscription: it is at least the ordinal of every record the sync worker
\* has received from the stream, whatever the record's key.
C12_LatestKnownObserved ==
  (sync = "following") =>
    \A i \in 1..Len(delivered) : latest_known >= delivered[i].ordinal

\* C13: the client counters are monotone.  No step decreases latest_known or
\* last_sync, the bootstrap step after the end of a stream included.
C13_CountersMonotone ==
  [][latest_known' >= latest_known /\ last_sync' >= last_sync]_vars

\* C14: the sync worker is resilient.  Whenever the stream has yielded an error
\* or GetSnapshot/Subscribe has failed, the worker later follows a subscription
\* again.
C14_WorkerResilient ==
  [](sync = "stopped" => <>(sync = "following"))

\* the step is the call of should_snapshot of the write on stream w
ShouldSnapshotStep(w) ==
  /\ wr[w].pc = "should_snapshot"
  /\ wr'[w].pc # "should_snapshot"

\* C18: snapshot policy.  The write accepted at ordinal O goes on to produce a
\* snapshot exactly when O > 0 and O - last_snapshot_ordinal >= I, and then
\* last_snapshot_ordinal becomes O; otherwise the counter is unchanged and the
\* write is answered Accepted(O).  No other step changes the counter or starts
\* a snapshot.
C18_SnapshotPolicy ==
  [][ /\ \A w \in RawWriters :
           ShouldSnapshotStep(w) =>
             LET O == wr[w].written
                 due == O > 0 /\ O - last_snapshot_ordinal >= SnapshotInterval
             IN IF due
                THEN /\ wr'[w].pc = "snapshot_query"
                     /\ last_snapshot_ordinal' = O
                ELSE /\ wr'[w].pc = "done"
                     /\ wr'[w].resp = RespAccepted(O)
                     /\ last_snapshot_ordinal' = last_snapshot_ordinal
      /\ (\A w \in RawWriters : ~ShouldSnapshotStep(w)) =>
           /\ last_snapshot_ordinal' = last_snapshot_ordinal
           /\ \A w \in RawWriters :
                wr'[w].pc = "snapshot_query" => wr[w].pc = "snapshot_query" ]_vars

\* the directory holds the file snapshot_<ordinal>.<ext>
HasFile(dir, ordinal, ext) == \E f \in dir : f.ordinal = ordinal /\ f.ext = ext

\* C17: the snapshot produced after the accepted write at ordinal O is
\* labelled with O: save_text leaves snapshot_O.tmap and save_binary leaves
\* snapshot_O.bmap in the directory, whatever the log holds.
C17_SnapshotLabel ==
  [][ \A w \in RawWriters :
        /\ ( wr[w].pc = "save_text" /\ wr'[w].pc = "save_binary" )
           => HasFile(files', wr[w].written, "tmap")
        /\ ( wr[w].pc = "save_binary_write" /\ wr'[w].pc = "done" /\ wr'[w].resp.accepted )
           => HasFile(files', wr[w].written, "bmap") ]_vars

\* the highest ordinal of recs that holds a record of this key
LastOrdinalOf(recs, key) == MaxOf({o \in DOMAIN recs : recs[o].key = key})

\* the map: keys of recs whose highest-ordinal record has a non-empty value
LiveKeys(recs) ==
  {recs[o].key : o \in {x \in DOMAIN recs :
                          /\ HasMapPrefix(recs[x].key)
                          /\ x = LastOrdinalOf(recs, recs[x].key)
                          /\ recs[x].value # <<>>}}

\* rows is a dump of the live subset of recs: one row per live key, with the
\* value of the key's highest-ordinal record, and nothing else
IsLiveDump(rows, recs) ==
  /\ {rows[i].key : i \in 1..Len(rows)} = LiveKeys(recs)
  /\ \A i, j \in 1..Len(rows) : rows[i].key = rows[j].key => i = j
  /\ \A i \in 1..Len(rows) :
       rows[i].value = recs[LastOrdinalOf(recs, rows[i].key)].value

\* C16: a snapshot is the live subset of the map keyspace.  The rows that
\* create_snapshot reads from the log and hands to save_text and save_binary
\* are exactly one row per map: key whose highest-ordinal record is not a
\* tombstone, with that record's value.
C16_SnapshotLiveSubset ==
  [][ \A w \in RawWriters :
        ( wr[w].pc = "snapshot_query" /\ wr'[w].pc = "save_text" )
        => IsLiveDump(wr'[w].rows, records) ]_vars

\* C19: latest-snapshot selection.  Whatever the order of the directory
\* entries, the selection returns the tmap and the bmap of the highest ordinal
\* that labels a file of the directory, load_binary decodes that bmap when
\* it is complete, and nothing is selected only when the directory is empty.
C19_LatestSelection ==
  \A order \in DirOrders(files) :
    LET selected == read_snapshot_entries(order)
    IN IF files = {}
       THEN selected.tmap = {} /\ selected.bmap = {}
       ELSE LET latest == {f \in files : f.ordinal = MaxFileOrdinal(files)}
            IN /\ selected.tmap = {f \in latest : f.ext = "tmap"}
               /\ selected.bmap = {f \in latest : f.ext = "bmap"}
               /\ \A f \in selected.bmap :
                    load_from_bytes(f.data).ok =>
                      load_binary(order) =
                        [outcome |-> "ok", records |-> load_from_bytes(f.data).records]

\* C15: snapshot bootstrap is equivalent to replay.  A worker that has loaded
\* the latest snapshot and followed the subscription from the snapshot's
\* ordinal up to ordinal n holds, for every logical key, what the replay of
\* the records 1..n gives: the value of the key's highest-ordinal record, and
\* no entry when that record is a tombstone or the key has no record.
C15_BootstrapIsReplay ==
  (sync = "following") =>
    \A k \in LogicalKeys : AgreesOn(records, Max2(sub.ordinal, 0), k)

\* C20: a partially written bmap is never selectable as latest.  At every
\* point of the production of snapshots, what a reader of the latest snapshot
\* obtains is a complete bmap: the bytes are neither empty nor truncated, and
\* the maximum ordinal of the directory has its bmap.
C20_NoPartialLatest ==
  LET latest == get_latest_snapshot(files)
  IN /\ \A data \in latest.data : data # <<>> /\ load_from_bytes(data).ok
     /\ files # {} => latest.data # {}

\* C21: when the snapshot bytes GetSnapshot returns fail to decode, the worker
\* falls back to "no snapshot": its bootstrap step inserts nothing into the
\* cache, opens the subscription from ordinal 0 and goes on to follow the log.
C21_DecodeFallback ==
  [][ ( /\ sync = "start"
        /\ sync' # "start"
        /\ ~load_from_bytes(GetSnapshotResponse.snapshot_data).ok )
      => ( /\ sync' = "following"
           /\ sub'.pc = "open"
           /\ sub'.start = 0
           /\ cache' = cache ) ]_vars

\* C23: load_from_bytes fails cleanly.  A bmap of the snapshot directory whose
\* magic or version is wrong, or that is a non-empty strict prefix of a valid
\* encoding, decodes to an error that carries no record; an empty one decodes
\* to the empty list.
C23_DecoderFailsCleanly ==
  \A f \in files :
    /\ f.data \in DamagedData => load_from_bytes(f.data) = [ok |-> FALSE, records |-> <<>>]
    /\ f.data = <<>> => load_from_bytes(f.data) = [ok |-> TRUE, records |-> <<>>]

\* C23 witness: the worker has decoded a truncated bmap that holds the header
\* and a part of its entry, and has ended on the error
C23_Witness ==
  /\ sync = "stopped"
  /\ \E f \in files :
       /\ f.ext = "bmap"
       /\ f.data \in StrictPrefixes(BinaryContent(EarlierRows))
       /\ Len(f.data) > 12
       /\ f.data = GetSnapshotResponse.snapshot_data

\* C22: snapshot round-trip.  The bmap that save_binary writes for the list of
\* rows R decodes, with load_from_bytes, to exactly R: the same pairs in the
\* same order, pairs with an empty value and the empty list included.
C22_SnapshotRoundTrip ==
  [][ \A w \in RawWriters :
        ( wr[w].pc = "save_binary_write" /\ wr'[w].pc = "done" /\ wr'[w].resp.accepted )
        => \E f \in files' :
             /\ f.ext = "bmap"
             /\ f.ordinal = SnapshotLabel(wr[w].rows)
             /\ f.data = BinaryContent(wr[w].rows)
             /\ load_from_bytes(f.data) = [ok |-> TRUE, records |-> wr[w].rows] ]_vars

\* C22 witness: the directory holds a bmap written by save_binary that decodes
\* to two or more pairs, one with an empty value and one whose value is not
\* UTF-8
C22_Witness ==
  \E f \in files :
    /\ f.ext = "bmap"
    /\ f.data # <<>>
    /\ LET decoded == load_from_bytes(f.data)
       IN /\ decoded.ok
          /\ Len(decoded.records) >= 2
          /\ \E i \in 1..Len(decoded.records) : decoded.records[i].value = ValEmpty
          /\ \E i \in 1..Len(decoded.records) : decoded.records[i].value = ValBad

\* C24: within one write stream every request is answered by one response
\* before the next request is read.  While a request is in processing the
\* stream takes no other request, and the stream reads its next request only
\* after the call of Storage::write for the current one has returned and its
\* response has been emitted.
C24_OneResponsePerRequest ==
  [][ \A w \in RawWriters :
        /\ ( wr[w].pc # "idle" /\ wr'[w].pc # "idle" )
           => ( /\ wr'[w].req.ordinal = wr[w].req.ordinal
                /\ wr'[w].req.latest_known = wr[w].req.latest_known )
        /\ ( wr[w].pc # "idle" /\ wr'[w].pc = "idle" )
           => ( /\ wr[w].pc = "done"
                /\ wr[w].resp # NoResp ) ]_vars

\* C25: the facade does not retry and does not close a write stream because of
\* a conflict.  A conflict is answered by a normal response with accepted =
\* false; the call of Storage::write that found it is the only one for that
\* request, and the next thing the stream does is to read its next request.
C25_ConflictIsAResponse ==
  [][ \A w \in RawWriters :
        /\ Conflicted(w) => ~wr[w].resp.accepted
        /\ ( Conflicted(w) /\ wr'[w] # wr[w] ) => wr'[w] = IdleWrite
        /\ ( wr[w].pc = "idle" /\ Conflicted(w)' )
           => ( /\ records' = records
                /\ wr'[w].resp.assigned_ordinal = MaxOrdinal(records) ) ]_vars

\* C25 witness: a stream has been answered a conflict while the other stream
\* is in the middle of a write
C25_Witness ==
  \E a, b \in RawWriters :
    /\ a # b
    /\ Conflicted(a)
    /\ wr[a].resp.assigned_ordinal > wr[a].req.latest_known
    /\ wr[b].pc = "insert"

\* the state of write stream w without the ordinal its request proposes
ErasedOrdinal(w) == [wr[w] EXCEPT !.req.ordinal = 0]

\* C26: the ordinal a write request proposes is advisory.  Every step of a
\* write leaves the log, the response and the rest of the stream's state as a
\* function of the state without the proposed ordinal, so two runs that differ
\* only in that field have the same responses and the same log; an accepted
\* write is assigned L+1, L being the highest ordinal its SELECT read.
C26_ProposedOrdinalAdvisory ==
  [][ \A w \in RawWriters :
        /\ SelectStep(w)
           => LET L == MaxOrdinal(records)
                  lk == wr'[w].req.latest_known
              IN /\ records' = records
                 /\ wr'[w].latest_ordinal = L
                 /\ lk < L  => ( wr'[w].pc = "done" /\ wr'[w].resp = RespConflict(L) )
                 /\ lk >= L => ( wr'[w].pc = "insert" /\ wr'[w].resp = NoResp )
        /\ InsertStep(w)
           => LET L == wr[w].latest_ordinal
              IN /\ records' = Upsert(records, L + 1, Rec(wr[w].req.key, wr[w].req.value))
                 /\ wr'[w].pc = "done"
                 /\ wr'[w].resp = RespAccepted(L + 1)
        /\ wr'[w].pc # "idle" => wr'[w].req.ordinal \in ProposedOrdinals
        /\ wr'[w].pc = "idle" => ErasedOrdinal(w)' = IdleWrite ]_vars

\* C26 witness: both streams have been accepted at the ordinal after the one
\* they read, one having proposed no ordinal and the other one far ahead
C26_Witness ==
  \E a, b \in RawWriters :
    /\ Accepted(a) /\ Accepted(b)
    /\ wr[a].req.ordinal = 0
    /\ wr[b].req.ordinal = MaxOrd + 1
    /\ wr[a].resp.assigned_ordinal = wr[a].latest_ordinal + 1
    /\ wr[b].resp.assigned_ordinal = wr[b].latest_ordinal + 1
    /\ wr[b].resp.assigned_ordinal \in DOMAIN records

\* the step is a cache read of caller c: its result changes, its call does not
ReadStep(c) ==
  /\ call'[c].read # call[c].read
  /\ call'[c].read.op # "none"
  /\ call'[c].pc = call[c].pc

\* C27: get, contains_key, len and is_empty are pure cache reads.  A read
\* sends no request (no ordinal is taken, nothing is put on the write stream,
\* the server does nothing) and leaves the cache and the three counters as
\* they are; what it returns is what the cache holds.
C27_ReadsArePure ==
  [][ \A c \in Callers :
        ReadStep(c)
        => /\ cache' = cache
           /\ next_ordinal' = next_ordinal
           /\ latest_known' = latest_known
           /\ last_sync' = last_sync
           /\ wr' = wr
           /\ call'[c].request = call[c].request
           /\ call'[c].sent = call[c].sent
           /\ UNCHANGED <<server_vars, sub_vars, sync>>
           /\ LET r == call'[c].read
              IN /\ r.op \in {"get", "contains_key"} => ( r.found <=> r.key \in DOMAIN cache )
                 /\ ( r.op = "get" /\ r.found ) => r.value = cache[r.key]
                 /\ r.op = "len" => r.count = Cardinality(DOMAIN cache)
                 /\ r.op = "is_empty" => ( r.found <=> cache # EmptyCache ) ]_vars

\* C27 witness: the caller's get has found an entry in a LogMap whose counters
\* have all moved, while its worker is following the log
C27_Witness ==
  \E c \in Callers :
    /\ call[c].read.op = "get"
    /\ call[c].read.found
    /\ call[c].read.value = ValA
    /\ next_ordinal > 1
    /\ latest_known > 0
    /\ sync = "following"

\* C28: read-your-writes.  The get(k) that follows an insert(k, v) that
\* returned Ok returns Some(v); the get(k) that follows a remove(k) that
\* returned Ok returns None.
C28_ReadYourWrites ==
  [][ \A c \in Callers :
        ( /\ ReadStep(c)
          /\ call[c].pc = "returned"
          /\ call[c].result = "Ok"
          /\ call[c].read = NoRead
          /\ call'[c].read.op = "get"
          /\ call'[c].read.key = call[c].key )
        => /\ call[c].op = "insert"
              => ( call'[c].read.found /\ call'[c].read.value = call[c].value )
           /\ call[c].op = "remove" => ~call'[c].read.found ]_vars

\* the sleeps of one call, by the number of rejections so far, in ms
BackoffDelays == <<100, 200, 400, 800>>

\* C29: back-off.  A call sleeps after each of its first four rejections,
\* 100 ms after the first and twice the previous delay after each further one
\* (100, 200, 400, 800 ms); after the fifth rejection it returns without
\* sleeping.
C29_Backoff ==
  [][ \A c \in Callers :
        /\ ( call[c].pc = "sent" /\ call'[c].rejected = call[c].rejected + 1 )
           => IF call'[c].rejected < MAX_RETRIES
              THEN /\ call'[c].pc = "sleep"
                   /\ call'[c].delay = BackoffDelays[call'[c].rejected]
              ELSE call'[c].pc = "returned"
        /\ call'[c].pc = "sleep"
           => ( /\ call'[c].rejected \in 1..(MAX_RETRIES - 1)
                /\ call'[c].delay = BackoffDelays[call'[c].rejected] )
        /\ ( call[c].pc = "sleep" /\ call'[c].pc # "sleep" )
           => ( call'[c].pc = "sent" /\ call'[c].delay = 2 * call[c].delay ) ]_vars

\* C29 witness: a call sleeps 800 ms after its fourth rejection
C29_Witness ==
  \E c \in Callers :
    /\ call[c].pc = "sleep"
    /\ call[c].rejected = 4
    /\ call[c].delay = 800

\* C30: a write request answered with accepted = false has added no record
\* to the log, whatever the cause of the rejection.
C30_RejectedAddsNothing ==
  \A w \in RawWriters :
    ( Done(w) /\ ~wr[w].resp.accepted ) => wr[w].written = 0

\* the worker has processed every record of the log and no write of another
\* stream is under way
CaughtUp(c) ==
  /\ ProcessedLog(MaxOrdinal(records))
  /\ \A w \in Streams \ {c} : wr[w].pc = "idle"

\* C31: a client that has caught up is not rejected.  The first request of a
\* call that begins while the worker has processed the whole log and no other
\* writer is active carries a latest_known that is not behind the log, and a
\* request that is not behind the log passes the conflict check.
C31_CaughtUpAccepted ==
  [][ \A c \in Callers :
        /\ ( call[c].pc = "idle" /\ call'[c].pc = "sent" /\ CaughtUp(c) )
           => call'[c].request.latest_known >= MaxOrdinal(records)
        /\ ( SelectStep(c) /\ call[c].request.latest_known >= MaxOrdinal(records) )
           => wr'[c].pc = "insert" ]_vars

\* C32: last_snapshot_ordinal is a monotonic counter; no step decreases it.
C32_LastSnapshotMonotone ==
  [][ last_snapshot_ordinal' >= last_snapshot_ordinal ]_vars

\* bmap contents that end before the header or the declared entry is complete
TruncatedData ==
  StrictPrefixes(BinaryContent(EarlierRows)) \cup StrictPrefixes(BinaryContent(<<>>))

\* C33: Snapshot::load_binary fails cleanly.  When the latest bmap of the
\* snapshot directory is truncated, load_binary returns an error; when it is
\* empty, load_binary returns the empty record list.
C33_LoadBinaryFailsCleanly ==
  \A order \in DirOrders(files) :
    \A f \in {g \in files : g.ext = "bmap" /\ g.ordinal = MaxFileOrdinal(files)} :
      /\ f.data \in TruncatedData
           => ( /\ load_binary(order).outcome = "error"
                /\ DecodeBinary(f.data).outcome = "error" )
      /\ f.data = <<>> => load_binary(order) = [outcome |-> "ok", records |-> <<>>]

\* C34: a subscribed record whose key lacks the map: prefix ("job") or whose
\* tail after the prefix is no i64 ("map:x") is ignored by the sync worker:
\* processing it leaves the cache unchanged.
C34_ForeignRecordsIgnored ==
  [][ ( /\ sync = "following"
        /\ Len(delivered') = Len(delivered) + 1
        /\ delivered'[Len(delivered')].key \in {KeyJob, KeyMapX} )
      => cache' = cache ]_vars

\* C34 witness: after an entry of key 1 the worker has processed a record of
\* another keyspace and a record with an unparseable tail; the cache still
\* holds the entry alone
C34_Witness ==
  /\ sync = "following"
  /\ Len(delivered) = 3
  /\ delivered[1].key = KeyMap1
  /\ delivered[2].key = KeyJob
  /\ delivered[3].key = KeyMapX
  /\ DOMAIN cache = {1}
  /\ cache[1] = ValA

\* C35: a client's latest_known never exceeds the highest ordinal of the
\* server's log, and neither does the latest_known of a write request that a
\* LogMap has sent.
C35_LatestKnownBounded ==
  /\ latest_known <= MaxOrdinal(records)
  /\ \A c \in Callers :
       call[c].pc = "sent" => call[c].request.latest_known <= MaxOrdinal(records)

\* C35 witness: a request is in flight that carries the highest ordinal of a
\* log of two records, which is what the client knows
C35_Witness ==
  \E c \in Callers :
    /\ call[c].pc = "sent"
    /\ MaxOrdinal(records) = 2
    /\ latest_known = 2
    /\ call[c].request.latest_known = 2

\* the callers whose request has been sent and whose response has not been read
InFlight == {c \in Callers : call[c].pc = "sent"}

\* C36: for one LogMap used by several callers at most one write request is in
\* flight.  The server works on a caller's stream only while that caller is
\* between send and response, a caller sends only when no request is in
\* flight, and a caller that sleeps or waits holds nothing: it is not in flight.
C36_OneWriteInFlight ==
  /\ Cardinality(InFlight) <= 1
  /\ \A c \in Callers : wr[c].pc # "idle" => c \in InFlight
  /\ Cardinality({c \in Callers : wr[c].pc # "idle"}) <= 1

\* C36 witness: one caller is backing off after a rejection while the other
\* caller's request is between the server's SELECT and INSERT
C36_Witness ==
  \E a, b \in Callers :
    /\ a # b
    /\ call[a].pc = "sleep"
    /\ call[a].rejected >= 1
    /\ call[b].pc = "sent"
    /\ wr[b].pc = "insert"

\* C37: matrix-multiply workers are gated by the start signal.  A worker
\* begins the write of a result key (1..m*p) only when key 0 holds "start" in
\* its map.
C37_StartGate ==
  [][ \A c \in Callers :
        ( /\ call[c].pc = "idle"
          /\ call'[c].pc = "sent"
          /\ call'[c].key \in ResultKeys )
        => ( /\ START_KEY \in DOMAIN cache
             /\ cache[START_KEY] = StartValue ) ]_vars

====
